---- MODULE Spec2Model ----
(***************************************************************************)
(* Model of dwave/system/samplers/leap_hybrid_sampler.py: the two adapters *)
(* LeapHybridSampler (BQM) and LeapHybridDQMSampler (DQM) over a remote    *)
(* hybrid solver.  One adapter object is followed from construction        *)
(* through its sampling calls; every remote call (upload, sample request)  *)
(* is a message recorded in `requests` and resolved by a separate step.    *)
(* Times are exact rationals [n, d]; labels are integers.                  *)
(***************************************************************************)
EXTENDS Integers, Sequences, FiniteSets, TLC

VARIABLES
    kind,            \* class of the adapter under construction / constructed
    selector,        \* `solver` argument of __init__ (a local: gone once a method runs)
    client_solver,   \* `solver` argument handed to Client.from_config
    resolved,        \* what client.get_solver() returned to __init__
    solver,          \* self.solver of the constructed adapter
    _properties,     \* self._properties (copy of solver.properties)
    init_outcome,    \* how the last __init__ ended
    pc,              \* position of the running sample / sample_dqm call
    call,            \* arguments and locals of the running call
    requests,        \* remote requests issued by the running call, in order
    sapi_problem_id, \* value of upload_bqm(fv).result()
    outcome,         \* how the call ended
    result           \* sample set returned to the caller

vars == <<kind, selector, client_solver, resolved, solver, _properties, init_outcome,
          pc, call, requests, sapi_problem_id, outcome, result>>

-----------------------------------------------------------------------------
(* Bounds of the model *)

\* model sizes above the threshold: threshold+1 .. threshold+MaxOver
MaxOver == 1
\* problem identifiers the remote service may hand out: 1 .. MaxProblemId
MaxProblemId == 2

-----------------------------------------------------------------------------
(* Exact arithmetic standing for Python's true division and floats *)

RECURSIVE GCD(_, _)
GCD(a, b) == IF b = 0 THEN a ELSE GCD(b, a % b)

Abs(a) == IF a < 0 THEN -a ELSE a

\* the number n/d in lowest terms, d > 0
Rat(n, d) ==
    LET g == GCD(Abs(n), Abs(d))
        s == IF d < 0 THEN -1 ELSE 1
    IN  [n |-> (s * n) \div g, d |-> (s * d) \div g]

RatInt(k) == [n |-> k, d |-> 1]

RatAdd(a, b) == Rat(a.n * b.d + b.n * a.d, a.d * b.d)
RatSub(a, b) == Rat(a.n * b.d - b.n * a.d, a.d * b.d)
RatMul(a, b) == Rat(a.n * b.n, a.d * b.d)
RatDiv(a, b) == Rat(a.n * b.d, a.d * b.n)
RatLT(a, b) == a.n * b.d < b.n * a.d
RatLE(a, b) == a.n * b.d <= b.n * a.d

-----------------------------------------------------------------------------
(* The remote service: the solvers the client can resolve *)

\* the curve of the sample() docstring: [[1, 0.1], [100, 10.0], [1000, 20.0]]
DocCurve ==
    << <<RatInt(1), Rat(1, 10)>>, <<RatInt(100), RatInt(10)>>,
       <<RatInt(1000), RatInt(20)>> >>

\* a curve with a flat start and points on both sides of the size threshold
LongCurve ==
    << <<RatInt(1), RatInt(3)>>, <<RatInt(1024), RatInt(3)>>,
       <<RatInt(10000), RatInt(40)>>, <<RatInt(10002), RatInt(41)>> >>

\* a curve of one point
PointCurve == << <<RatInt(60), RatInt(7)>> >>

NoCurve == << >>

Solvers ==
    { [name |-> "hybrid_v1", category |-> "hybrid", version |-> 1,
       supported_problem_types |-> {"bqm"}, minimum_time_limit |-> DocCurve],
      [name |-> "hybrid_v2", category |-> "hybrid", version |-> 2,
       supported_problem_types |-> {"bqm"}, minimum_time_limit |-> LongCurve],
      [name |-> "hybrid_dqm_v1", category |-> "hybrid", version |-> 1,
       supported_problem_types |-> {"dqm"}, minimum_time_limit |-> DocCurve],
      [name |-> "hybrid_dqm_v2", category |-> "hybrid", version |-> 2,
       supported_problem_types |-> {"dqm"}, minimum_time_limit |-> PointCurve],
      [name |-> "qpu_bqm", category |-> "qpu", version |-> 3,
       supported_problem_types |-> {"ising", "qubo", "bqm", "dqm"},
       minimum_time_limit |-> NoCurve] }

NoSolver ==
    [name |-> "", category |-> "", version |-> 0,
     supported_problem_types |-> {}, minimum_time_limit |-> NoCurve]

-----------------------------------------------------------------------------
(* Inputs of the constructors: the `solver` argument *)

FilterKeys == {"category", "supported_problem_types__contains", "order_by"}

FilterValues(k) ==
    IF k = "category" THEN {"hybrid", "qpu"}
    ELSE IF k = "supported_problem_types__contains" THEN {"bqm", "dqm"}
    ELSE {"version"}

EmptyMap == [k \in {} |-> ""]

\* every mapping a caller may pass as `solver`
Filters ==
    UNION { { f \in [S -> {"hybrid", "qpu", "bqm", "dqm", "version"}] :
                \A k \in S : f[k] \in FilterValues(k) } : S \in SUBSET FilterKeys }

SolverNames == {s.name : s \in Solvers} \cup {"missing"}

\* solver=None, a mapping, or the name of a solver
Selectors ==
    {[type |-> "none", filter |-> EmptyMap, name |-> ""]}
    \cup {[type |-> "mapping", filter |-> f, name |-> ""] : f \in Filters}
    \cup {[type |-> "name", filter |-> EmptyMap, name |-> n] : n \in SolverNames}

NoClientArg == [type |-> "none", filter |-> EmptyMap, name |-> ""]

-----------------------------------------------------------------------------
(* Construction *)

\* a setdefault that assigns whether or not the key is there
setdefault_Overwrite(f, k, v) ==
    [j \in DOMAIN f \cup {k} |-> IF j = k THEN v ELSE f[j]]

\* dict.setdefault: the mapping after the call
setdefault(f, k, v) ==
    IF k \in DOMAIN f THEN f
    ELSE [j \in DOMAIN f \cup {k} |-> IF j = k THEN v ELSE f[j]]

\* the filter after the defaults of __init__ are injected, in the code's order
WithDefaults(f, k) ==
    LET f1 == setdefault(f, "category", "hybrid")
        f2 == setdefault(f1, "supported_problem_types__contains", k)
    IN  setdefault(f2, "order_by", "-version")

\* the two `raise ValueError` of the mapping branch
FilterConflict(f, k) ==
    LET f1 == setdefault(f, "category", "hybrid")
        f2 == setdefault(f1, "supported_problem_types__contains", k)
    IN  \/ f1["category"] # "hybrid"
        \/ f2["supported_problem_types__contains"] # k

\* the argument __init__ hands to Client.from_config
ClientArg(sel, k) ==
    IF sel.type = "name" THEN sel
    ELSE [type |-> "mapping", filter |-> WithDefaults(sel.filter, k), name |-> ""]

\* solvers with the features a filter asks for
Matching(f) ==
    { s \in Solvers :
        /\ "category" \in DOMAIN f => s.category = f["category"]
        /\ "supported_problem_types__contains" \in DOMAIN f
             => f["supported_problem_types__contains"] \in s.supported_problem_types }

\* client.get_solver(): the solvers the connection may resolve the argument to
get_solver(arg) ==
    IF arg.type = "name" THEN { s \in Solvers : s.name = arg.name }
    ELSE LET m == Matching(arg.filter)
             o == IF "order_by" \in DOMAIN arg.filter
                  THEN arg.filter["order_by"] ELSE ""
         IN  IF o = "-version" THEN { s \in m : \A t \in m : t.version <= s.version }
             ELSE IF o = "version" THEN { s \in m : \A t \in m : s.version <= t.version }
             ELSE m

\* the category check alone
SolverAccepted_CategoryOnly(s, k) == s.category = "hybrid"

\* the checks "For explicitly named solvers" pass
SolverAccepted(s, k) ==
    /\ s.category = "hybrid"
    /\ k \in s.supported_problem_types

NoTime == [t |-> "none", v |-> RatInt(0)]
NoModel ==
    [cls |-> "none", num_variables |-> 0, labels |-> "range",
     num_variable_interactions |-> 0, num_cases |-> 0]
NoCall ==
    [op |-> "none", model |-> NoModel, time_limit_arg |-> NoTime,
     kwargs |-> EmptyMap, compressed |-> FALSE, min_time_limit |-> NoTime,
     time_limit |-> NoTime, path |-> "none"]
NoResult == [variables |-> << >>]

\* a fresh adapter object has no call behind it
FreshCall ==
    /\ pc' = "idle"
    /\ call' = NoCall
    /\ requests' = << >>
    /\ sapi_problem_id' = 0
    /\ outcome' = "none"
    /\ result' = NoResult

\* body shared by the two constructors; k is the class's problem type
__init__(k, sel) ==
    /\ pc = "idle"
    /\ kind' = k
    /\ selector' = sel
    /\ FreshCall
    /\ IF sel.type # "name" /\ FilterConflict(sel.filter, k)
       THEN /\ client_solver' = NoClientArg
            /\ resolved' = NoSolver
            /\ solver' = NoSolver
            /\ _properties' = NoSolver
            /\ init_outcome' = "ValueError"
       ELSE LET arg == ClientArg(sel, k) IN
            /\ client_solver' = arg
            /\ IF get_solver(arg) = {}
               THEN /\ resolved' = NoSolver
                    /\ solver' = NoSolver
                    /\ _properties' = NoSolver
                    /\ init_outcome' = "SolverNotFoundError"
               ELSE \E s \in get_solver(arg) :
                    /\ resolved' = s
                    /\ IF SolverAccepted(s, k)
                       THEN /\ solver' = s
                            /\ _properties' = s
                            /\ init_outcome' = "ok"
                       ELSE /\ solver' = NoSolver
                            /\ _properties' = NoSolver
                            /\ init_outcome' = "ValueError"

LeapHybridSampler__init__ == \E sel \in Selectors : __init__("bqm", sel)

LeapHybridDQMSampler__init__ == \E sel \in Selectors : __init__("dqm", sel)

-----------------------------------------------------------------------------
(* Inputs of the sampling calls *)

_INTEGER_BQM_SIZE_THRESHOLD == 10000

LabelSchemes == {"range", "reversed", "shifted"}

\* small sizes, the threshold, and the sizes above it
BQMSizes ==
    {0, 1, 50, 100}
    \cup { _INTEGER_BQM_SIZE_THRESHOLD + k : k \in 0..MaxOver }

BQMs ==
    { [cls |-> "bqm", num_variables |-> n, labels |-> l,
       num_variable_interactions |-> 0, num_cases |-> 0] :
        n \in BQMSizes, l \in LabelSchemes }

\* <<num_variables, num_variable_interactions, num_cases>> of the DQMs submitted
DQMShapes ==
    { <<0, 0, 0>>, <<1, 0, 2>>, <<3, 1, 7>>, <<3, 10, 6>>,
      <<5, 10, 30>>, <<10, 45, 50>>, <<40, 780, 80>> }

DQMs ==
    { [cls |-> "dqm", num_variables |-> sh[1], labels |-> l,
       num_variable_interactions |-> sh[2], num_cases |-> sh[3]] :
        sh \in DQMShapes, l \in LabelSchemes }

\* time_limit arguments: None, a string, numbers
TimeLimits ==
    {NoTime, [t |-> "str", v |-> RatInt(0)]}
    \cup { [t |-> "num", v |-> r] :
             r \in {RatInt(1), Rat(49, 10), RatInt(5), RatInt(7), RatInt(41)} }

OptionKeys == {"label", "seed"}

\* **kwargs: mappings from some option names to values
Options ==
    { f \in UNION { [S -> {1, 2}] : S \in SUBSET OptionKeys } :
        "seed" \in DOMAIN f => (f["seed"] = 2 /\ DOMAIN f = OptionKeys /\ f["label"] = 1) }

-----------------------------------------------------------------------------
(* The model collaborator *)

\* bqm.iter_variables() / dqm.variables: the labels in the model's order
iter_variables(m) ==
    LET n == m.num_variables
    IN  IF m.labels = "range" THEN [i \in 1..n |-> i - 1]
        ELSE IF m.labels = "reversed" THEN [i \in 1..n |-> n - i]
        ELSE [i \in 1..n |-> i + 6]

\* dict(enumerate(vs)): the dict {0: vs[0], 1: vs[1], ...} is kept as the
\* sequence of its values, key k at position k + 1
enumerate(vs) == SubSeq(vs, 1, Len(vs))

\* k in mapping, mapping[k] for such a dict
HasKey(mapping, k) == 0 <= k /\ k < Len(mapping)
Lookup(mapping, k) == mapping[k + 1]

\* FileView(bqm, ignore_labels=...) and dqm.to_file(compressed=..., ignore_labels=True)
FileView(m, ignore_labels, compressed) ==
    [model |-> m, ignore_labels |-> ignore_labels, compressed |-> compressed]

NoPayload == FileView(NoModel, FALSE, FALSE)

\* the variables of the problem a payload describes, as the solver sees them
PayloadVariables(f) ==
    IF f.ignore_labels THEN [i \in 1..f.model.num_variables |-> i - 1]
    ELSE iter_variables(f.model)

\* SampleSet.relabel_variables(mapping)
relabel_variables(sampleset, mapping) ==
    LET old == SubSeq(sampleset.variables, 1, Len(sampleset.variables))
    IN  [variables |->
            [i \in 1..Len(old) |->
                IF HasKey(mapping, old[i]) THEN Lookup(mapping, old[i]) ELSE old[i]]]

-----------------------------------------------------------------------------
(* Minimum time limits *)

\* an interpolation that extends the end segments instead of clamping
np_interp_Extrapolate(x, xp, fp) ==
    LET c == Cardinality({i \in 1..Len(xp) : RatLE(xp[i], x)})
        j == IF c = 0 THEN 1 ELSE IF c = Len(xp) THEN c - 1 ELSE c
    IN  IF Len(xp) = 1 THEN fp[1]
        ELSE LET slope == RatDiv(RatSub(fp[j + 1], fp[j]), RatSub(xp[j + 1], xp[j]))
             IN  RatAdd(RatMul(slope, RatSub(x, xp[j])), fp[j])

\* numpy.interp(x, xp, fp) for increasing xp: clamped outside, linear inside
np_interp(x, xp, fp) ==
    LET j == Cardinality({i \in 1..Len(xp) : RatLE(xp[i], x)})
    IN  IF j = 0 THEN fp[1]
        ELSE IF j = Len(xp) THEN fp[j]
        ELSE IF xp[j] = x THEN fp[j]
        ELSE LET slope == RatDiv(RatSub(fp[j + 1], fp[j]), RatSub(xp[j + 1], xp[j]))
             IN  RatAdd(RatMul(slope, RatSub(x, xp[j])), fp[j])

\* zip(*curve): the first and the second coordinates
xx(curve) == [i \in 1..Len(curve) |-> curve[i][1]]
yy(curve) == [i \in 1..Len(curve) |-> curve[i][2]]

\* sample(): min_time_limit for a BQM of num_vars variables
bqm_min_time_limit(props, num_vars) ==
    np_interp(RatInt(num_vars), xx(props.minimum_time_limit),
              yy(props.minimum_time_limit))

\* min_time_limit(): the density the curve is read at
ec(dqm) ==
    Rat(dqm.num_variable_interactions * dqm.num_cases, dqm.num_variables)

\* no floor
max5_NoFloor(t) == t

\* max([5, t])
max5(t) == IF RatLT(RatInt(5), t) THEN t ELSE RatInt(5)

\* LeapHybridDQMSampler.min_time_limit(dqm), num_variables > 0
min_time_limit(props, dqm) ==
    max5(np_interp(ec(dqm), xx(props.minimum_time_limit),
                   yy(props.minimum_time_limit)))

-----------------------------------------------------------------------------
(* Requests to the solver *)

upload_bqm(fv) ==
    [op |-> "upload_bqm", payload |-> fv, problem |-> 0,
     time_limit |-> NoTime, options |-> EmptyMap]

\* a sampling request against a fixed identifier, not the one just returned
sample_bqm_StaleId(id, time_limit, kwargs) ==
    [op |-> "sample_bqm", payload |-> NoPayload, problem |-> 1,
     time_limit |-> time_limit, options |-> kwargs]

\* solver.sample_bqm(sapi_problem_id, time_limit=..., **kwargs)
sample_bqm(id, time_limit, kwargs) ==
    [op |-> "sample_bqm", payload |-> NoPayload, problem |-> id,
     time_limit |-> time_limit, options |-> kwargs]

\* solver.sample_dqm(f, time_limit=time_limit)
sample_dqm_request(f, time_limit) ==
    [op |-> "sample_dqm", payload |-> f, problem |-> 0,
     time_limit |-> time_limit, options |-> EmptyMap]

-----------------------------------------------------------------------------
(* LeapHybridSampler.sample *)

\* a threshold that includes the threshold size
IsLarge_Inclusive(num_vars) == num_vars >= _INTEGER_BQM_SIZE_THRESHOLD

\* num_vars > self._INTEGER_BQM_SIZE_THRESHOLD
IsLarge(num_vars) == num_vars > _INTEGER_BQM_SIZE_THRESHOLD

\* no default: the argument is used as given
ResolveTimeLimit_NoDefault(time_limit, minimum) == time_limit

\* if time_limit is None: time_limit = <the minimum>
ResolveTimeLimit(time_limit, minimum) ==
    IF time_limit.t = "none" THEN [t |-> "num", v |-> minimum] ELSE time_limit

\* time_limit < min_time_limit
BelowMinimum(time_limit, minimum) == RatLT(time_limit.v, minimum)

\* the call fails before any request
Raise(c, e) ==
    /\ call' = c
    /\ outcome' = e
    /\ pc' = "done"
    /\ requests' = << >>
    /\ sapi_problem_id' = 0
    /\ result' = NoResult

\* sample() up to the upload issued by _sample / _sample_large
sample(bqm, time_limit, kwargs) ==
    /\ pc = "idle"
    /\ init_outcome = "ok"
    /\ kind = "bqm"
    /\ LET num_vars == bqm.num_variables
           m == bqm_min_time_limit(_properties, num_vars)
           tl == ResolveTimeLimit(time_limit, m)
           large == IsLarge(num_vars)
           c == [op |-> "sample", model |-> bqm, time_limit_arg |-> time_limit,
                 kwargs |-> kwargs, compressed |-> FALSE,
                 min_time_limit |-> [t |-> "num", v |-> m], time_limit |-> tl,
                 path |-> "none"]
       IN  IF tl.t # "num" THEN Raise(c, "TypeError")
           ELSE IF BelowMinimum(tl, m) THEN Raise(c, "ValueError")
           ELSE /\ call' = [c EXCEPT !.path =
                               IF large THEN "_sample_large" ELSE "_sample"]
                /\ requests' = << upload_bqm(FileView(bqm, large, FALSE)) >>
                /\ pc' = "upload"
                /\ sapi_problem_id' = 0
                /\ outcome' = "none"
                /\ result' = NoResult
    /\ selector' = NoClientArg
    /\ UNCHANGED <<kind, client_solver, resolved, solver, _properties, init_outcome>>

LeapHybridSampler_sample ==
    \E bqm \in BQMs, time_limit \in TimeLimits, kwargs \in Options :
        sample(bqm, time_limit, kwargs)

\* a remote failure surfaces where the future is resolved
RemoteError ==
    /\ pc \in {"upload", "sampling"}
    /\ pc' = "done"
    /\ outcome' = "RemoteError"
    /\ UNCHANGED <<kind, selector, client_solver, resolved, solver, _properties,
                   init_outcome, call, requests, sapi_problem_id, result>>

\* upload_bqm(fv).result() returns; sample_bqm is requested against the id
upload_result(id) ==
    /\ pc = "upload"
    /\ sapi_problem_id' = id
    /\ requests' = Append(requests, sample_bqm(id, call.time_limit, call.kwargs))
    /\ pc' = "sampling"
    /\ UNCHANGED <<kind, selector, client_solver, resolved, solver, _properties,
                   init_outcome, call, outcome, result>>

UploadResolves == \E id \in 1..MaxProblemId : upload_result(id)

\* the payload a sampling request is about: its own, or the uploaded problem
ProblemOf(reqs) ==
    IF reqs[Len(reqs)].op = "sample_dqm" THEN reqs[Len(reqs)].payload
    ELSE reqs[1].payload

\* .sampleset resolves; the large path and sample_dqm relabel it
sampleset_result ==
    /\ pc = "sampling"
    /\ LET sampleset == [variables |-> PayloadVariables(ProblemOf(requests))]
           mapping == enumerate(iter_variables(call.model))
       IN  result' = IF call.path = "_sample" THEN sampleset
                     ELSE relabel_variables(sampleset, mapping)
    /\ outcome' = "ok"
    /\ pc' = "done"
    /\ UNCHANGED <<kind, selector, client_solver, resolved, solver, _properties,
                   init_outcome, call, requests, sapi_problem_id>>

-----------------------------------------------------------------------------
(* LeapHybridDQMSampler.sample_dqm *)

sample_dqm(dqm, time_limit, compressed, kwargs) ==
    /\ pc = "idle"
    /\ init_outcome = "ok"
    /\ kind = "dqm"
    /\ LET c == [op |-> "sample_dqm", model |-> dqm, time_limit_arg |-> time_limit,
                 kwargs |-> kwargs, compressed |-> compressed,
                 min_time_limit |-> NoTime, time_limit |-> time_limit,
                 path |-> "none"]
       IN  IF time_limit.t = "none" /\ dqm.num_variables = 0
           THEN Raise(c, "ZeroDivisionError")
           ELSE LET m == [t |-> "num", v |-> min_time_limit(_properties, dqm)]
                    tl == ResolveTimeLimit(time_limit, m.v)
                    f == FileView(dqm, TRUE, compressed)
                IN  /\ call' = [c EXCEPT !.path = "sample_dqm",
                                         !.time_limit = tl,
                                         !.min_time_limit =
                                            IF time_limit.t = "none" THEN m ELSE NoTime]
                    /\ requests' = << sample_dqm_request(f, tl) >>
                    /\ pc' = "sampling"
                    /\ sapi_problem_id' = 0
                    /\ outcome' = "none"
                    /\ result' = NoResult
    /\ selector' = NoClientArg
    /\ UNCHANGED <<kind, client_solver, resolved, solver, _properties, init_outcome>>

LeapHybridDQMSampler_sample_dqm ==
    \E dqm \in DQMs, time_limit \in TimeLimits, compressed \in BOOLEAN,
       kwargs \in Options :
        sample_dqm(dqm, time_limit, compressed, kwargs)

\* a caller asks for the minimum of a model directly
LeapHybridDQMSampler_min_time_limit ==
    /\ pc = "idle"
    /\ init_outcome = "ok"
    /\ kind = "dqm"
    /\ \E dqm \in DQMs :
         LET c == [NoCall EXCEPT !.op = "min_time_limit", !.model = dqm]
         IN  IF dqm.num_variables = 0 THEN Raise(c, "ZeroDivisionError")
             ELSE /\ call' = [c EXCEPT !.min_time_limit =
                                [t |-> "num", v |-> min_time_limit(_properties, dqm)]]
                  /\ outcome' = "ok"
                  /\ pc' = "done"
                  /\ requests' = << >>
                  /\ sapi_problem_id' = 0
                  /\ result' = NoResult
    /\ selector' = NoClientArg
    /\ UNCHANGED <<kind, client_solver, resolved, solver, _properties, init_outcome>>

-----------------------------------------------------------------------------
(* The call returns (or raises) to the caller; its frame is gone *)

Return ==
    /\ pc = "done"
    /\ FreshCall
    /\ UNCHANGED <<kind, selector, client_solver, resolved, solver, _properties, init_outcome>>

-----------------------------------------------------------------------------
(* Specification *)

Init ==
    /\ kind = "none"
    /\ selector = NoClientArg
    /\ client_solver = NoClientArg
    /\ resolved = NoSolver
    /\ solver = NoSolver
    /\ _properties = NoSolver
    /\ init_outcome = "none"
    /\ pc = "idle"
    /\ call = NoCall
    /\ requests = << >>
    /\ sapi_problem_id = 0
    /\ outcome = "none"
    /\ result = NoResult

Next ==
    \/ LeapHybridSampler__init__
    \/ LeapHybridDQMSampler__init__
    \/ LeapHybridSampler_sample
    \/ UploadResolves
    \/ sampleset_result
    \/ RemoteError
    \/ LeapHybridDQMSampler_sample_dqm
    \/ LeapHybridDQMSampler_min_time_limit
    \/ Return

Spec == Init /\ [][Next]_vars

-----------------------------------------------------------------------------
(* Properties *)

\* the sampling requests (not the uploads) the running call has issued
SamplingRequests ==
    { i \in 1..Len(requests) : requests[i].op \in {"sample_bqm", "sample_dqm"} }

\* C1: in sample and in sample_dqm alike, a numeric time_limit below the
\* minimum computed for the model ends the call with a ValueError before any
\* request, and one at or above the minimum is never refused by the adapter.
C1_TimeLimitValidated ==
    (/\ call.op \in {"sample", "sample_dqm"}
     /\ call.time_limit_arg.t = "num"
     /\ call.op = "sample_dqm" => call.model.num_variables > 0)
    => LET m == IF call.op = "sample"
                THEN bqm_min_time_limit(_properties, call.model.num_variables)
                ELSE min_time_limit(_properties, call.model)
       IN  IF RatLT(call.time_limit_arg.v, m)
           THEN pc = "done" /\ outcome = "ValueError" /\ requests = << >>
           ELSE outcome \notin {"ValueError", "TypeError"}

\* C1 restricted to LeapHybridSampler.sample, where the code has the check
C1_SampleValidated ==
    (call.op = "sample" /\ call.time_limit_arg.t = "num")
    => IF RatLT(call.time_limit_arg.v,
                bqm_min_time_limit(_properties, call.model.num_variables))
       THEN pc = "done" /\ outcome = "ValueError" /\ requests = << >>
       ELSE outcome \notin {"ValueError", "TypeError"}

\* C2: in sample and in sample_dqm alike, a time_limit that is not a number
\* ends the call with a TypeError and no request has been issued.
C2_NonNumericRejected ==
    (call.op \in {"sample", "sample_dqm"} /\ call.time_limit_arg.t = "str")
    => (pc = "done" /\ outcome = "TypeError" /\ requests = << >>)

\* C2 restricted to LeapHybridSampler.sample, where the code has the check
C2_SampleNonNumericRejected ==
    (call.op = "sample" /\ call.time_limit_arg.t = "str")
    => (pc = "done" /\ outcome = "TypeError" /\ requests = << >>)

\* C3: with time_limit omitted, every sampling request carries exactly the
\* minimum time limit computed for the model (BQM: the curve read at the
\* variable count; DQM: min_time_limit(model)).
C3_DefaultIsMinimum ==
    (call.op \in {"sample", "sample_dqm"} /\ call.time_limit_arg.t = "none")
    => /\ \A i \in SamplingRequests :
            /\ requests[i].time_limit.t = "num"
            /\ requests[i].time_limit.v =
                 IF call.op = "sample"
                 THEN bqm_min_time_limit(_properties, call.model.num_variables)
                 ELSE min_time_limit(_properties, call.model)
       /\ outcome = "ok" => SamplingRequests # {}

C3_Witness ==
    /\ call.op = "sample_dqm"
    /\ call.time_limit_arg.t = "none"
    /\ outcome = "ok"
    /\ requests[1].time_limit.v = RatInt(7)

\* C4: construction fails with a ValueError whenever the resolved solver is
\* not of category "hybrid" or does not support the adapter's problem type,
\* and in every later state a constructed adapter is bound to the solver
\* that was resolved, which is hybrid and supports the adapter's type.
C4_BoundSolverIsHybrid ==
    /\ (/\ resolved # NoSolver
        /\ ~(resolved.category = "hybrid" /\ kind \in resolved.supported_problem_types))
       => (init_outcome = "ValueError" /\ solver = NoSolver)
    /\ init_outcome = "ok"
       => /\ solver = resolved
          /\ _properties = solver
          /\ solver.category = "hybrid"
          /\ kind \in solver.supported_problem_types
    /\ call.op # "none" => init_outcome = "ok"

C4_Witness ==
    /\ selector.type = "name"
    /\ resolved.category = "hybrid"
    /\ kind \notin resolved.supported_problem_types
    /\ init_outcome = "ValueError"

\* C5: for a filter mapping (or no selector), the filter handed to the
\* connection has every caller-supplied key with the caller's value and the
\* defaults category "hybrid", problem type = the adapter's kind and order_by
\* "-version" for the keys the caller left out; a caller-supplied category
\* other than "hybrid" or problem type other than the adapter's kind fails
\* with a ValueError and nothing is handed to the connection.
C5_FilterDefaults ==
    (kind # "none" /\ selector.type = "mapping")
    => LET f == selector.filter
           g == client_solver.filter
           conflict ==
               \/ "category" \in DOMAIN f /\ f["category"] # "hybrid"
               \/ /\ "supported_problem_types__contains" \in DOMAIN f
                  /\ f["supported_problem_types__contains"] # kind
       IN  IF conflict
           THEN init_outcome = "ValueError" /\ client_solver = NoClientArg
           ELSE /\ client_solver.type = "mapping"
                /\ DOMAIN g = DOMAIN f \cup FilterKeys
                /\ \A k \in DOMAIN f : g[k] = f[k]
                /\ "category" \notin DOMAIN f => g["category"] = "hybrid"
                /\ "supported_problem_types__contains" \notin DOMAIN f
                     => g["supported_problem_types__contains"] = kind
                /\ "order_by" \notin DOMAIN f => g["order_by"] = "-version"

C5_Witness ==
    /\ kind = "dqm"
    /\ selector.type = "mapping"
    /\ DOMAIN selector.filter = {"order_by"}
    /\ client_solver.filter["order_by"] = "version"
    /\ client_solver.filter["supported_problem_types__contains"] = "dqm"
    /\ init_outcome = "ok"

\* C6: every sampling request of sample and of sample_dqm carries the
\* caller's options unchanged, together with the resolved time limit.
C6_OptionsForwarded ==
    call.op \in {"sample", "sample_dqm"}
    => \A i \in SamplingRequests :
          /\ requests[i].options = call.kwargs
          /\ requests[i].time_limit = call.time_limit

\* C6 restricted to LeapHybridSampler.sample, which passes **kwargs on
C6_SampleOptionsForwarded ==
    call.op = "sample"
    => \A i \in SamplingRequests :
          /\ requests[i].options = call.kwargs
          /\ requests[i].time_limit = call.time_limit

\* C7: sample submits the unlabelled form exactly when the model has more
\* than 10,000 variables (a model of exactly 10,000 is submitted labelled),
\* and then the returned sample set's variables are the model's variables in
\* the model's order.
C7_LargeModelRoundTrip ==
    (call.op = "sample" /\ requests # << >>)
    => /\ requests[1].op = "upload_bqm"
       /\ requests[1].payload.model = call.model
       /\ requests[1].payload.ignore_labels <=> call.model.num_variables > 10000
       /\ call.path = "_sample_large" <=> call.model.num_variables > 10000
       /\ outcome = "ok"
            => /\ Len(result.variables) = call.model.num_variables
               /\ result.variables = iter_variables(call.model)

C7_Witness ==
    /\ call.op = "sample"
    /\ outcome = "ok"
    /\ call.model.num_variables = 10001
    /\ call.model.labels = "reversed"
    /\ requests[1].payload.ignore_labels
    /\ result.variables[1] = 10000
    /\ result.variables[10001] = 0

\* C8: the minimum sample computes for a BQM of n variables is the first
\* value of the solver's curve for n at or below the first point, the last
\* value for n at or above the last point, and lies on the segment between
\* the two points around n otherwise; on [[1,0.1],[100,10.0],[1000,20.0]] a
\* model of 50 variables gets 5.
C8_BQMMinimumInterpolates ==
    call.op = "sample"
    => LET curve == _properties.minimum_time_limit
           n == RatInt(call.model.num_variables)
           m == call.min_time_limit.v
           last == Len(curve)
       IN  /\ call.min_time_limit.t = "num"
           /\ RatLE(n, curve[1][1]) => m = curve[1][2]
           /\ RatLE(curve[last][1], n) => m = curve[last][2]
           /\ \A i \in 1..(last - 1) :
                (RatLE(curve[i][1], n) /\ RatLE(n, curve[i + 1][1]))
                => RatMul(RatSub(m, curve[i][2]), RatSub(curve[i + 1][1], curve[i][1]))
                   = RatMul(RatSub(curve[i + 1][2], curve[i][2]), RatSub(n, curve[i][1]))
           /\ (curve = DocCurve /\ call.model.num_variables = 50) => m = RatInt(5)

C8_Witness ==
    /\ call.op = "sample"
    /\ _properties.minimum_time_limit = DocCurve
    /\ call.model.num_variables = 50
    /\ call.min_time_limit.v = RatInt(5)
    /\ pc = "upload"

\* C9: min_time_limit(model) is the larger of 5 and the curve read at
\* d = interactions * cases / variables, so it is never below 5; for
\* interactions = 10, cases = 6, variables = 3 the curve is read at 20.
C9_DQMMinimumFloored ==
    (call.op \in {"min_time_limit", "sample_dqm"} /\ call.min_time_limit.t = "num")
    => LET curve == _properties.minimum_time_limit
           d == Rat(call.model.num_variable_interactions * call.model.num_cases,
                    call.model.num_variables)
           t == np_interp(d, xx(curve), yy(curve))
           m == call.min_time_limit.v
       IN  /\ RatLE(RatInt(5), m)
           /\ RatLE(t, m)
           /\ m = RatInt(5) \/ m = t
           /\ (/\ call.model.num_variable_interactions = 10
               /\ call.model.num_cases = 6
               /\ call.model.num_variables = 3)
              => /\ d = RatInt(20)
                 /\ m = IF RatLT(RatInt(5), np_interp(RatInt(20), xx(curve), yy(curve)))
                        THEN np_interp(RatInt(20), xx(curve), yy(curve))
                        ELSE RatInt(5)

C9_Witness ==
    /\ call.op = "min_time_limit"
    /\ call.model.num_variable_interactions = 10
    /\ call.model.num_cases = 6
    /\ call.model.num_variables = 3
    /\ _properties.minimum_time_limit = DocCurve
    /\ call.min_time_limit.v = RatInt(5)
    /\ outcome = "ok"

\* C10: a sample call issues one upload, and only once its result is known
\* one sampling request, against the identifier the upload returned; a
\* sample_dqm call issues one submit request carrying the serialized model
\* and no upload; a successful call has issued exactly these and no more.
C10_RequestSequence ==
    /\ call.op = "sample"
       => /\ pc = "upload"
             => /\ Len(requests) = 1
                /\ requests[1].op = "upload_bqm"
                /\ sapi_problem_id = 0
          /\ (pc = "sampling" \/ outcome = "ok")
             => /\ Len(requests) = 2
                /\ requests[1].op = "upload_bqm"
                /\ requests[2].op = "sample_bqm"
                /\ sapi_problem_id > 0
                /\ requests[2].problem = sapi_problem_id
          /\ Len(requests) <= 2
    /\ call.op = "sample_dqm"
       => /\ (pc = "sampling" \/ outcome = "ok")
             => /\ Len(requests) = 1
                /\ requests[1].op = "sample_dqm"
                /\ requests[1].payload.model = call.model
                /\ requests[1].payload.ignore_labels
                /\ requests[1].payload.compressed = call.compressed
          /\ Len(requests) <= 1
    /\ call.op = "min_time_limit" => requests = << >>

C10_Witness ==
    /\ call.op = "sample"
    /\ outcome = "ok"
    /\ sapi_problem_id = 2
    /\ requests[2].problem = 2

====
